---- MODULE Spec2Model ----
(***************************************************************************)
(* Model of topoflow/components/evap_energy_balance.py: the energy-balance  *)
(* evaporation component (class evap_component).                            *)
(*                                                                          *)
(* A component instance is the variable self, a function from attribute     *)
(* names to values: an attribute that has not been assigned yet is not in   *)
(* DOMAIN self, as in Python.  The class attributes (the lookup tables)     *)
(* are the variable evap_component.                                         *)
(*                                                                          *)
(* Numbers are exact: a float is n/d * 10^e in canonical form, and d = 0    *)
(* stands for the IEEE values +inf (n = 1), -inf (n = -1) and nan (n = 0).  *)
(* Rounding of float64 is not modelled.  A NumPy value is an ndarray        *)
(* [shape, data] with row-major data; a scalar has shape << >>.             *)
(***************************************************************************)
EXTENDS Integers, Sequences, FiniteSets, TLC

VARIABLES
    self,            \* the instance's attributes
    evap_component,  \* the class attributes: the lookup tables
    handles,         \* the file objects made by model_input.open_file
    yielded,         \* per file input, the last value its source yielded
    numpy,           \* the installed NumPy: how it compares an array with None
    phase,           \* where the driver is in the run: setup, stepping, finished
    last             \* the last call made on the component and its outcome

vars == <<self, evap_component, handles, yielded, numpy, phase, last>>

-----------------------------------------------------------------------------
(* Exact arithmetic on floats.                                              *)

Abs(i) == IF i < 0 THEN -i ELSE i

Sign(i) == IF i < 0 THEN -1 ELSE IF i > 0 THEN 1 ELSE 0

Min(i, j) == IF i <= j THEN i ELSE j

Max(i, j) == IF i >= j THEN i ELSE j

RECURSIVE GCD(_, _)
GCD(a, b) == IF b = 0 THEN a ELSE GCD(b, a % b)

RECURSIVE Pow10(_)
Pow10(k) == IF k <= 0 THEN 1 ELSE 10 * Pow10(k - 1)

\* Canonical form of n/d * 10^e for d > 0: d has no factor 2 or 5, n and d
\* are coprime, n is no multiple of 10, and zero is 0/1 * 10^0.
RECURSIVE Canon(_, _, _)
Canon(n, d, e) ==
    IF n = 0 THEN [n |-> 0, d |-> 1, e |-> 0]
    ELSE IF GCD(Abs(n), d) > 1
         THEN Canon(n \div GCD(Abs(n), d), d \div GCD(Abs(n), d), e)
    ELSE IF d % 2 = 0 THEN Canon(n * 5, d \div 2, e - 1)
    ELSE IF d % 5 = 0 THEN Canon(n * 2, d \div 5, e - 1)
    ELSE IF n % 10 = 0 THEN Canon(n \div 10, d, e + 1)
    ELSE [n |-> n, d |-> d, e |-> e]

Inf == [n |-> 1, d |-> 0, e |-> 0]

NegInf == [n |-> -1, d |-> 0, e |-> 0]

NaN == [n |-> 0, d |-> 0, e |-> 0]

\* The float of the decimal literal m * 10^e, and of the integer i.
Float(m, e) == Canon(m, 1, e)

FInt(i) == Canon(i, 1, 0)

IsFinite(x) == x.d # 0

IsNaN(x) == x.d = 0 /\ x.n = 0

\* The sign of a float: -1, 0 or 1 (0 for nan too; test IsNaN first).
Sgn(x) == Sign(x.n)

\* x - y, x * y, x / y in IEEE arithmetic without rounding.
FSub(x, y) ==
    IF IsNaN(x) \/ IsNaN(y) THEN NaN
    ELSE IF ~IsFinite(x) THEN (IF ~IsFinite(y) /\ x.n = y.n THEN NaN ELSE x)
    ELSE IF ~IsFinite(y) THEN [y EXCEPT !.n = -y.n]
    ELSE IF y.n = 0 THEN x
    ELSE IF x.n = 0 THEN [y EXCEPT !.n = -y.n]
    ELSE LET e == Min(x.e, y.e)
         IN  Canon(x.n * Pow10(x.e - e) * y.d - y.n * Pow10(y.e - e) * x.d,
                   x.d * y.d, e)

FMul(x, y) ==
    IF IsNaN(x) \/ IsNaN(y) THEN NaN
    ELSE IF ~IsFinite(x) \/ ~IsFinite(y)
         THEN (IF Sgn(x) * Sgn(y) = 0 THEN NaN
               ELSE [n |-> Sgn(x) * Sgn(y), d |-> 0, e |-> 0])
    ELSE Canon(x.n * y.n, x.d * y.d, x.e + y.e)

FDiv(x, y) ==
    IF IsNaN(x) \/ IsNaN(y) THEN NaN
    ELSE IF ~IsFinite(x)
         THEN (IF ~IsFinite(y) THEN NaN
               ELSE [n |-> IF Sgn(y) < 0 THEN -x.n ELSE x.n, d |-> 0, e |-> 0])
    ELSE IF ~IsFinite(y) THEN FInt(0)
    ELSE IF y.n = 0 THEN [n |-> Sgn(x), d |-> 0, e |-> 0]
    ELSE Canon(x.n * y.d * Sign(y.n), x.d * Abs(y.n), x.e - y.e)

\* x < y for floats (false when either is nan).
FLess(x, y) ==
    /\ ~IsNaN(x)
    /\ ~IsNaN(y)
    /\ x # y
    /\ Sgn(FSub(x, y)) < 0

\* np.maximum on two floats: the larger, and nan if either is nan.
FMaximum(x, y) ==
    IF IsNaN(x) \/ IsNaN(y) THEN NaN
    ELSE IF FLess(x, y) THEN y ELSE x

-----------------------------------------------------------------------------
(* NumPy values: ndarrays, their shapes and broadcasting.                   *)

Scalar(x) == [shape |-> << >>, data |-> <<x>>]

Grid(shape, data) == [shape |-> shape, data |-> data]

ndim(a) == Len(a.shape)

\* The product of s[i], ..., s[Len(s)]: the number of elements from axis i on.
RECURSIVE Prod(_, _)
Prod(s, i) == IF i > Len(s) THEN 1 ELSE s[i] * Prod(s, i + 1)

size(a) == Prod(a.shape, 1)

\* The shape s with 1s put in front of it to make k axes.
PadShape(s, k) ==
    [i \in 1..k |-> IF i <= k - Len(s) THEN 1 ELSE s[i - (k - Len(s))]]

\* NumPy's broadcasting rule: the shapes are aligned on their last axes, and
\* on each axis the lengths are equal or one of them is 1.
Broadcastable_same_shape(s, t) == s = t \/ s = << >> \/ t = << >>

Broadcastable(s, t) ==
    LET k == Max(Len(s), Len(t))
    IN  \A i \in 1..k :
            \/ PadShape(s, k)[i] = PadShape(t, k)[i]
            \/ PadShape(s, k)[i] = 1
            \/ PadShape(t, k)[i] = 1

BroadcastShape(s, t) ==
    LET k == Max(Len(s), Len(t))
    IN  [i \in 1..k |-> IF PadShape(s, k)[i] = 1 THEN PadShape(t, k)[i]
                        ELSE PadShape(s, k)[i]]

\* The element of a that the result's element j (0-based, row-major, result
\* shape rs) is computed from: an axis of length 1 is repeated.
RECURSIVE Offset(_, _, _, _)
Offset(p, rs, j, i) ==
    IF i > Len(rs) THEN 0
    ELSE (IF p[i] = 1 THEN 0 ELSE ((j \div Prod(rs, i + 1)) % rs[i]) * Prod(p, i + 1))
         + Offset(p, rs, j, i + 1)

BroadcastAt(a, rs, j) == a.data[Offset(PadShape(a.shape, Len(rs)), rs, j, 1) + 1]

\* The exception object a failed ufunc call raises.
ValueError == [raised |-> "ValueError"]

IsArray(v) == "shape" \in DOMAIN v

\* A binary ufunc (elementwise op) on two ndarrays: the broadcast result, or
\* ValueError when the shapes cannot be broadcast together.
elementwise(op, x, y) ==
    CASE op = "subtract" -> FSub(x, y)
      [] op = "add" -> FSub(x, FSub(FInt(0), y))
      [] op = "multiply" -> FMul(x, y)
      [] op = "divide" -> FDiv(x, y)
      [] op = "maximum" -> FMaximum(x, y)

ufunc(op, a, b) ==
    IF ~Broadcastable(a.shape, b.shape) THEN ValueError
    ELSE LET rs == BroadcastShape(a.shape, b.shape)
         IN  [shape |-> rs,
              data  |-> [j \in 1..Prod(rs, 1) |->
                            elementwise(op, BroadcastAt(a, rs, j - 1),
                                        BroadcastAt(b, rs, j - 1))]]

subtract(a, b) == ufunc("subtract", a, b)

multiply(a, b) == ufunc("multiply", a, b)

divide(a, b) == ufunc("divide", a, b)

maximum(a, b) == ufunc("maximum", a, b)

-----------------------------------------------------------------------------
(* Python values.                                                           *)

None == [kind |-> "None"]

\* A Python str: its text in lower case and the positions of its upper-case
\* letters.  S(t) is the all-lower-case string t.
S(t) == [text |-> t, upper |-> {}]

\* str.lower()
lower(str) == [str EXCEPT !.upper = {}]

\* setattr(obj, name, value)
SetAttr(obj, name, value) ==
    [k \in DOMAIN obj \cup {name} |-> IF k = name THEN value ELSE obj[k]]

\* The outcome of a call: the value it returns or the exception it raises,
\* the lines it prints and the file operations it performs.
Outcome(op, arg, ret, raised, printed, io) ==
    [op |-> op, arg |-> arg, ret |-> ret, raised |-> raised,
     printed |-> printed, io |-> io]

-----------------------------------------------------------------------------
(* The class attributes of evap_component.                                  *)

att_map ==
    (S("model_name") :> "TopoFlow_Evaporation_Energy_Balance")
    @@ (S("version") :> "3.1")
    @@ (S("author_name") :> "Scott D. Peckham")
    @@ (S("grid_type") :> "uniform")
    @@ (S("time_step_type") :> "fixed")
    @@ (S("step_method") :> "explicit")
    @@ (S("comp_name") :> "EvapEnergyBalance")
    @@ (S("model_family") :> "TopoFlow")
    @@ (S("cfg_template_file") :> "Evap_Energy_Balance.cfg.in")
    @@ (S("cfg_extension") :> "_evap_energy_balance.cfg")
    @@ (S("cmt_var_prefix") :> "/EvapEnergyBalance/Input/Var/")
    @@ (S("gui_xml_file") :>
           "/home/csdms/cca/topoflow/3.1/src/share/cmt/gui/Evap_Energy_Balance.xml")
    @@ (S("dialog_title") :> "Evaporation: Energy Balance Parameters")
    @@ (S("time_units") :> "seconds")

input_var_names ==
    << S("air__temperature"),
       S("channel_water__depth"),
       S("land_surface_air__latent_heat_flux"),
       S("land_surface__net_irradiation_flux"),
       S("land_surface__temperature"),
       S("soil_model_top_layer__porosity"),
       S("soil_model_top_layer__wetted_thickness"),
       S("soil_water_table_surface__elevation"),
       S("snow__depth") >>

output_var_names_with_soil_surface ==
    << S("land_water__evaporation_rate"),
       S("land_water__area_time_integral_of_evaporation_rate"),
       S("model__time_step"),
       S("soil_surface__conduction_energy_flux"),
       S("land_surface__elevation"),
       S("soil__reference_depth_temperature"),
       S("soil_surface__temperature"),
       S("soil__temperature_reference_depth"),
       S("soil__thermal_conductivity") >>

output_var_names ==
    << S("land_water__evaporation_rate"),
       S("land_water__area_time_integral_of_evaporation_rate"),
       S("model__time_step"),
       S("soil_surface__conduction_energy_flux") >>

var_name_map ==
    (S("air__temperature") :> "T_air")
    @@ (S("channel_water__depth") :> "depth")
    @@ (S("land_surface_air__latent_heat_flux") :> "Qe")
    @@ (S("land_surface__net_irradiation_flux") :> "Q_sum")
    @@ (S("land_surface__temperature") :> "T_surf")
    @@ (S("soil_model_top_layer__porosity") :> "p0")
    @@ (S("soil_model_top_layer__wetted_thickness") :> "y0")
    @@ (S("soil_water_table_surface__elevation") :> "h_table")
    @@ (S("snow__depth") :> "h_snow")
    @@ (S("land_water__evaporation_rate") :> "ET")
    @@ (S("land_water__area_time_integral_of_evaporation_rate") :> "vol_ET")
    @@ (S("model__time_step") :> "dt")
    @@ (S("soil_surface__conduction_energy_flux") :> "Qc")
    @@ (S("land_surface__elevation") :> "DEM")
    @@ (S("soil__reference_depth_temperature") :> "T_soil_x")
    @@ (S("soil__temperature_reference_depth") :> "soil_x")
    @@ (S("soil__thermal_conductivity") :> "K_soil")

var_units_map ==
    (S("air__temperature") :> "deg_C")
    @@ (S("channel_water__depth") :> "m")
    @@ (S("land_surface_air__latent_heat_flux") :> "W m-2")
    @@ (S("land_surface__net_irradiation_flux") :> "W m-2")
    @@ (S("land_surface__temperature") :> "deg_C")
    @@ (S("soil_model_top_layer__porosity") :> "1")
    @@ (S("soil_model_top_layer__wetted_thickness") :> "m")
    @@ (S("soil_water_table_surface__elevation") :> "m")
    @@ (S("snow__depth") :> "m")
    @@ (S("land_water__evaporation_rate") :> "m s-1")
    @@ (S("land_water__area_time_integral_of_evaporation_rate") :> "m3")
    @@ (S("model__time_step") :> "s")
    @@ (S("soil_surface__conduction_energy_flux") :> "W m-2")
    @@ (S("land_surface__elevation") :> "m")
    @@ (S("soil__reference_depth_temperature") :> "deg_C")
    @@ (S("soil__temperature_reference_depth") :> "m")
    @@ (S("soil__thermal_conductivity") :> "W m-1 deg_C-1]")

\* The class object: its attributes by name.
class_attributes ==
    [_att_map          |-> att_map,
     _input_var_names  |-> input_var_names,
     _output_var_names |-> output_var_names,
     _var_name_map     |-> var_name_map,
     _var_units_map    |-> var_units_map]

-----------------------------------------------------------------------------
(* The metadata accessors.                                                  *)

\* A value a call returns.
Ret(v) == [kind |-> "value", value |-> v]

banner == "###################################################"

\* get_attribute without the lower-casing of the name.
get_attribute_case_sensitive(cls, att_name) ==
    IF att_name \in DOMAIN cls._att_map
    THEN Outcome("get_attribute", att_name, Ret(cls._att_map[att_name]),
                 "None", << >>, << >>)
    ELSE Outcome("get_attribute", att_name, None, "None",
                 << <<banner>>,
                    <<" ERROR: Could not find attribute: ", att_name>>,
                    <<banner>>,
                    <<" ">> >>,
                 << >>)

\* get_attribute(att_name): the stored string; for a name that is not in the
\* table the except clause prints four lines and the method falls off its
\* end, returning None.
get_attribute(cls, att_name) ==
    IF lower(att_name) \in DOMAIN cls._att_map
    THEN Outcome("get_attribute", att_name, Ret(cls._att_map[lower(att_name)]),
                 "None", << >>, << >>)
    ELSE Outcome("get_attribute", att_name, None, "None",
                 << <<banner>>,
                    <<" ERROR: Could not find attribute: ", att_name>>,
                    <<banner>>,
                    <<" ">> >>,
                 << >>)

get_input_var_names(cls) ==
    Outcome("get_input_var_names", None, Ret(cls._input_var_names), "None", << >>, << >>)

get_output_var_names(cls) ==
    Outcome("get_output_var_names", None, Ret(cls._output_var_names), "None", << >>, << >>)

\* dict.get(key): the value, or None.
getitem_or_None(op, dict, key) ==
    IF key \in DOMAIN dict
    THEN Outcome(op, key, Ret(dict[key]), "None", << >>, << >>)
    ELSE Outcome(op, key, None, "None", << >>, << >>)

\* dict[key]: the value, or KeyError.
getitem(op, dict, key) ==
    IF key \in DOMAIN dict
    THEN Outcome(op, key, Ret(dict[key]), "None", << >>, << >>)
    ELSE Outcome(op, key, None, "KeyError", << >>, << >>)

get_var_name(cls, long_var_name) ==
    getitem("get_var_name", cls._var_name_map, long_var_name)

get_var_units(cls, long_var_name) ==
    getitem("get_var_units", cls._var_units_map, long_var_name)

-----------------------------------------------------------------------------
(* check_input_types() and update_ET_rate().                                *)

\* The base class's is_scalar(var_name): the attribute has no axes.
is_scalar(s, var_name) == ndim(s[var_name]) = 0

checked_inputs == <<"T_soil_x", "soil_x", "K_soil", "h_snow", "Q_sum", "Qe", "T_air">>

are_scalars(s) == [i \in 1..Len(checked_inputs) |-> is_scalar(s, checked_inputs[i])]

\* np.any and np.all on a sequence of booleans
np_any(bs) == \E i \in 1..Len(bs) : bs[i]

np_all(bs) == \A i \in 1..Len(bs) : bs[i]

check_input_types(s) == SetAttr(s, "ALL_SCALARS", np_all(are_scalars(s)))

\* a op b for operands that may already be a raised exception
Then(op, a, b) ==
    IF ~IsArray(a) THEN a ELSE IF ~IsArray(b) THEN b ELSE ufunc(op, a, b)

\* Fourier's law: Qc = K_soil * (T_soil_x - T_surf) / soil_x
delta_T_reversed(T_soil_x, T_surf) == subtract(T_surf, T_soil_x)

delta_T(T_soil_x, T_surf) == subtract(T_soil_x, T_surf)

conductive_flux(K_soil, T_soil_x, T_surf, soil_x) ==
    Then("divide", Then("multiply", K_soil, delta_T(T_soil_x, T_surf)), soil_x)

\* The energy available for evaporation: Qet = Q_sum - Qe
energy_for_ET(Q_sum, Qe) == subtract(Q_sum, Qe)

\* rho_w * Lv = 2.5E+9 [J/m^3]
rho_w_Lv == Float(25, 8)

\* ET = max(Qet / 2.5E+9, 0)
ET_floor_missing(ET) == ET

ET_floor(ET) == maximum(ET, Scalar(FInt(0)))

ET_rate(Qet) == ET_floor(divide(Qet, Scalar(rho_w_Lv)))

\* The attributes update_ET_rate() assigns, in order: Qc, then ET.  An
\* exception leaves the assignments made before it.
ET_assignments_T_surf(s, Qc, ET) ==
    IF ~IsArray(Qc) THEN s
    ELSE IF ~IsArray(ET) THEN SetAttr(s, "Qc", Qc)
    ELSE SetAttr(SetAttr(SetAttr(s, "Qc", Qc), "ET", ET), "T_surf", s.T_soil_x)

ET_assignments(s, Qc, ET) ==
    IF ~IsArray(Qc) THEN s
    ELSE IF ~IsArray(ET) THEN SetAttr(s, "Qc", Qc)
    ELSE SetAttr(SetAttr(s, "Qc", Qc), "ET", ET)

\* update_ET_rate() with Qc counted in the energy available.
update_ET_rate_with_Qc(s) ==
    LET Qc  == conductive_flux(s.K_soil, s.T_soil_x, s.T_surf, s.soil_x)
        Qet == Then("add", energy_for_ET(s.Q_sum, s.Qe), Qc)
        ET  == IF IsArray(Qet) THEN ET_rate(Qet) ELSE Qet
        exc == IF ~IsArray(Qc) THEN Qc.raised
               ELSE IF ~IsArray(ET) THEN ET.raised ELSE "None"
    IN  [self |-> ET_assignments(s, Qc, ET),
         last |-> Outcome("update_ET_rate", None, None, exc, << >>, << >>)]

update_ET_rate(s) ==
    LET Qc  == conductive_flux(s.K_soil, s.T_soil_x, s.T_surf, s.soil_x)
        Qet == energy_for_ET(s.Q_sum, s.Qe)
        ET  == IF IsArray(Qet) THEN ET_rate(Qet) ELSE Qet
        exc == IF ~IsArray(Qc) THEN Qc.raised
               ELSE IF ~IsArray(ET) THEN ET.raised ELSE "None"
    IN  [self |-> ET_assignments(s, Qc, ET),
         last |-> Outcome("update_ET_rate", None, None, exc, << >>, << >>)]

-----------------------------------------------------------------------------
(* The three file inputs: open_input_files(), read_input_files() and        *)
(* close_input_files(), and the file utility model_input they call.         *)

file_inputs == <<"K_soil", "soil_x", "T_soil_x">>

type_of(name) ==
    CASE name = "K_soil" -> "K_soil_type"
      [] name = "soil_x" -> "soil_x_type"
      [] name = "T_soil_x" -> "T_soil_x_type"

file_of(name) ==
    CASE name = "K_soil" -> "K_soil_file"
      [] name = "soil_x" -> "soil_x_file"
      [] name = "T_soil_x" -> "T_soil_x_file"

unit_of(name) ==
    CASE name = "K_soil" -> "K_soil_unit"
      [] name = "soil_x" -> "soil_x_unit"
      [] name = "T_soil_x" -> "T_soil_x_unit"

\* The declared types of an input: a fixed scalar, a fixed grid, a series.
var_types == {"Scalar", "Grid", "Time_Series"}

\* model_input.open_file(var_type, input_file): no file for a fixed scalar,
\* else a new open file object.
open_file(var_type, input_file, hs) ==
    IF var_type = "Scalar" THEN [unit |-> None, handles |-> hs]
    ELSE [unit    |-> [kind |-> "file", id |-> Len(hs) + 1],
          handles |-> Append(hs, [path |-> input_file, closed |-> FALSE,
                                  closes |-> 0])]

\* One input of open_input_files(): the path gets the input directory in
\* front, and the unit is what open_file returns.
open_input(st, name) ==
    LET path == st.self.in_directory \o st.self[file_of(name)]
        o    == open_file(st.self[type_of(name)], path, st.handles)
    IN  [self    |-> SetAttr(SetAttr(st.self, file_of(name), path),
                             unit_of(name), o.unit),
         handles |-> o.handles,
         io      |-> IF o.unit = None THEN st.io
                     ELSE Append(st.io, <<"open", name>>)]

\* open_input_files(): the three paths are assigned first, then the three
\* units, each in the order K_soil, soil_x, T_soil_x; the result is the same
\* as input by input.
open_input_files(s, hs) ==
    open_input(open_input(open_input([self |-> s, handles |-> hs, io |-> << >>],
                                     "K_soil"), "soil_x"), "T_soil_x")

\* The truth value Python gives to (v != None) in an if statement.  For an
\* ndarray it depends on NumPy: older versions answer True, newer ones
\* compare element by element, and the truth value of an array with more
\* than one element is a ValueError.
not_None_test(v, np) ==
    IF v = None THEN "False"
    ELSE IF ndim(v) = 0 THEN "True"
    ELSE IF ~np.elementwise_None THEN "True"
    ELSE IF size(v) = 1 THEN "True"
    ELSE "ValueError"

\* One input of read_input_files(): v is what model_input.read_next yields.
\* Nothing is read once an exception is raised.
read_input(st, name, v, np) ==
    IF st.raised # "None" THEN st
    ELSE LET t == not_None_test(v, np)
         IN  [self    |-> IF t = "True" THEN SetAttr(st.self, name, v) ELSE st.self,
              yielded |-> IF v = None THEN st.yielded
                          ELSE [st.yielded EXCEPT ![name] = v],
              raised  |-> IF t = "ValueError" THEN t ELSE "None",
              io      |-> Append(st.io, <<"read", name>>)]

read_input_files(s, y, np, K_soil, soil_x, T_soil_x) ==
    read_input(
        read_input(
            read_input([self |-> s, yielded |-> y, raised |-> "None", io |-> << >>],
                       "K_soil", K_soil, np),
            "soil_x", soil_x, np),
        "T_soil_x", T_soil_x, np)

\* unit.close() on a file object
close(hs, unit) ==
    [hs EXCEPT ![unit.id].closed = TRUE, ![unit.id].closes = @ + 1]

\* The test close_input_files() makes before it closes an input's unit.
must_close_always(var_type) == TRUE

must_close(var_type) == var_type # "Scalar"

\* One input of close_input_files(); nothing more is closed once an
\* exception is raised (None has no close method).
close_input(st, name) ==
    IF st.raised # "None" \/ ~must_close(st.self[type_of(name)]) THEN st
    ELSE IF st.self[unit_of(name)] = None
         THEN [st EXCEPT !.raised = "AttributeError"]
    ELSE [self    |-> st.self,
          handles |-> close(st.handles, st.self[unit_of(name)]),
          raised  |-> "None",
          io      |-> Append(st.io, <<"close", name>>)]

close_input_files(s, hs) ==
    close_input(
        close_input(
            close_input([self |-> s, handles |-> hs, raised |-> "None", io |-> << >>],
                        "K_soil"),
            "soil_x"),
        "T_soil_x")

-----------------------------------------------------------------------------
(* The component after construction and configuration: the inputs are       *)
(* bound, the three file inputs have their declared types and file names,   *)
(* and nothing has been computed or opened yet.                             *)

in_directory == <<"/data/in/">>

configured(types, v) ==
    [Q_sum |-> v.Q_sum, Qe |-> v.Qe, T_surf |-> v.T_surf, T_air |-> v.T_air,
     h_snow |-> v.h_snow, T_soil_x |-> v.T_soil_x, soil_x |-> v.soil_x,
     K_soil |-> v.K_soil,
     K_soil_type |-> types[1], soil_x_type |-> types[2], T_soil_x_type |-> types[3],
     K_soil_file |-> <<"K_soil">>, soil_x_file |-> <<"soil_x">>,
     T_soil_x_file |-> <<"T_soil_x">>,
     in_directory |-> in_directory]

Constructed(Types, Vals, Numpys) ==
    /\ self \in {configured(t, v) : t \in Types, v \in Vals}
    /\ evap_component = class_attributes
    /\ handles = << >>
    /\ yielded = [name \in {"K_soil", "soil_x", "T_soil_x"} |-> None]
    /\ numpy \in [elementwise_None : Numpys]
    /\ phase = "setup"
    /\ last = Outcome("__init__", None, None, "None", << >>, << >>)

-----------------------------------------------------------------------------
(* The calls the framework makes on the component.                          *)

\* The framework, or the configuration, binds an input of the component to
\* a value of D.
Bind(name, D) ==
    /\ phase \in {"setup", "stepping"}
    /\ \E v \in D : self' = SetAttr(self, name, v)
    /\ last' = Outcome("bind", None, None, "None", << >>, << >>)
    /\ UNCHANGED <<evap_component, handles, yielded, numpy, phase>>

Call_check_input_types ==
    /\ phase \in {"setup", "stepping"}
    /\ self' = check_input_types(self)
    /\ last' = Outcome("check_input_types", None, None, "None", << >>, << >>)
    /\ UNCHANGED <<evap_component, handles, yielded, numpy, phase>>

Call_update_ET_rate ==
    /\ phase \in {"setup", "stepping"}
    /\ self' = update_ET_rate(self).self
    /\ last' = update_ET_rate(self).last
    /\ UNCHANGED <<evap_component, handles, yielded, numpy, phase>>

Call_open_input_files ==
    /\ phase = "setup"
    /\ LET o == open_input_files(self, handles)
       IN  /\ self' = o.self
           /\ handles' = o.handles
           /\ last' = Outcome("open_input_files", None, None, "None", << >>, o.io)
    /\ phase' = "stepping"
    /\ UNCHANGED <<evap_component, yielded, numpy>>

\* What model_input.read_next can yield for an input of the given type: a
\* fixed scalar yields nothing; a file yields a value of D, or nothing when
\* it is constant or exhausted.
read_next(var_type, D) == IF var_type = "Scalar" THEN {None} ELSE {None} \cup D

Call_read_input_files(DK, DX, DT) ==
    /\ phase = "stepping"
    /\ \E K_soil \in read_next(self.K_soil_type, DK),
          soil_x \in read_next(self.soil_x_type, DX),
          T_soil_x \in read_next(self.T_soil_x_type, DT) :
          LET r == read_input_files(self, yielded, numpy, K_soil, soil_x, T_soil_x)
          IN  /\ self' = r.self
              /\ yielded' = r.yielded
              /\ last' = Outcome("read_input_files", None, None, r.raised, << >>, r.io)
    /\ UNCHANGED <<evap_component, handles, numpy, phase>>

Call_close_input_files ==
    /\ phase = "stepping"
    /\ LET c == close_input_files(self, handles)
       IN  /\ handles' = c.handles
           /\ last' = Outcome("close_input_files", None, None, c.raised, << >>, c.io)
    /\ phase' = "finished"
    /\ UNCHANGED <<self, evap_component, yielded, numpy>>

Call_get_attribute(Names) ==
    /\ \E att_name \in Names : last' = get_attribute(evap_component, att_name)
    /\ UNCHANGED <<self, evap_component, handles, yielded, numpy, phase>>

Call_get_input_var_names ==
    /\ last' = get_input_var_names(evap_component)
    /\ UNCHANGED <<self, evap_component, handles, yielded, numpy, phase>>

Call_get_output_var_names ==
    /\ last' = get_output_var_names(evap_component)
    /\ UNCHANGED <<self, evap_component, handles, yielded, numpy, phase>>

Call_get_var_name(Ids) ==
    /\ \E long_var_name \in Ids : last' = get_var_name(evap_component, long_var_name)
    /\ UNCHANGED <<self, evap_component, handles, yielded, numpy, phase>>

Call_get_var_units(Ids) ==
    /\ \E long_var_name \in Ids : last' = get_var_units(evap_component, long_var_name)
    /\ UNCHANGED <<self, evap_component, handles, yielded, numpy, phase>>

-----------------------------------------------------------------------------
(* Spec: the time steps of a run.  The framework rebinds the inputs that    *)
(* come from other components, the three file inputs are read, and the ET   *)
(* rate is updated, in any order and any number of times.                   *)

\* The grid of the floats of the integers in seq, with the given shape.
IntGrid(shape, seq) == Grid(shape, [i \in 1..Len(seq) |-> FInt(seq[i])])

Q_sumValues == {Scalar(FInt(50)), Scalar(FInt(300)), IntGrid(<<2>>, <<50, 300>>)}

QeValues == {Scalar(FInt(50)), Scalar(FInt(100))}

T_surfValues == {Scalar(FInt(10)), IntGrid(<<2>>, <<10, 20>>)}

T_soil_xValues == {Scalar(FInt(10)), Scalar(FInt(15))}

soil_xValues == {Scalar(FInt(0)), Scalar(FInt(1))}

K_soilValues == {Scalar(Float(45, -2)), Scalar(FInt(-1))}

\* The inputs as first bound: scenario A.
ScenarioA ==
    [Q_sum |-> Scalar(FInt(300)), Qe |-> Scalar(FInt(50)),
     T_surf |-> Scalar(FInt(10)), T_air |-> Scalar(FInt(12)),
     h_snow |-> Scalar(FInt(0)), T_soil_x |-> Scalar(FInt(15)),
     soil_x |-> Scalar(FInt(1)), K_soil |-> Scalar(Float(45, -2))]

Init == Constructed({<<"Time_Series", "Time_Series", "Time_Series">>},
                    {ScenarioA}, {FALSE})

Next ==
    \/ Bind("Q_sum", Q_sumValues)
    \/ Bind("Qe", QeValues)
    \/ Bind("T_surf", T_surfValues)
    \/ Call_open_input_files
    \/ Call_read_input_files(K_soilValues, soil_xValues, T_soil_xValues)
    \/ Call_update_ET_rate

Spec == Init /\ [][Next]_vars

-----------------------------------------------------------------------------
(* SpecMeta: the metadata accessors, called with names that are in the      *)
(* tables and names that are not, on a component in different states.       *)

MaxUpper == 2

AttTexts == {k.text : k \in DOMAIN att_map} \cup {"unknown_attribute"}

\* The attribute names asked for, with any of their first letters in upper
\* case.
AttNames == {[text |-> t, upper |-> u] : t \in AttTexts, u \in SUBSET (1..MaxUpper)}

\* The identifiers asked for: those of the tables, the one the tables leave
\* out, one in the wrong case and one that no table knows.
VarIds ==
    DOMAIN var_name_map
    \cup {S("soil_surface__temperature"), S("unknown__variable"),
          [text |-> "land_water__evaporation_rate", upper |-> {1}]}

InitMeta ==
    Constructed({<<"Scalar", "Grid", "Time_Series">>}, {ScenarioA}, {FALSE})

NextMeta ==
    \/ Call_get_attribute(AttNames)
    \/ Call_get_input_var_names
    \/ Call_get_output_var_names
    \/ Call_get_var_name(VarIds)
    \/ Call_get_var_units(VarIds)
    \/ Call_check_input_types
    \/ Call_open_input_files
    \/ Call_update_ET_rate

SpecMeta == InitMeta /\ [][NextMeta]_vars

-----------------------------------------------------------------------------
(* SpecTypes: every input that check_input_types() and update_ET_rate()     *)
(* read is a scalar or a grid, in every combination.                        *)

ScalarOrGrid(i) == {Scalar(FInt(i)), IntGrid(<<2>>, <<i, i>>)}

InitTypes ==
    Constructed({<<"Grid", "Grid", "Grid">>}, {ScenarioA}, {FALSE})

NextTypes ==
    \/ Bind("Q_sum", ScalarOrGrid(300))
    \/ Bind("Qe", ScalarOrGrid(50))
    \/ Bind("T_surf", ScalarOrGrid(10))
    \/ Bind("T_air", ScalarOrGrid(12))
    \/ Bind("h_snow", ScalarOrGrid(0))
    \/ Bind("K_soil", ScalarOrGrid(1))
    \/ Bind("soil_x", ScalarOrGrid(1))
    \/ Bind("T_soil_x", ScalarOrGrid(15))
    \/ Call_check_input_types
    \/ Call_update_ET_rate

SpecTypes == InitTypes /\ [][NextTypes]_vars

-----------------------------------------------------------------------------
(* SpecFiles: a run's file handling, open_input_files(), then any number    *)
(* of read_input_files(), then close_input_files(), for every declared      *)
(* type of the three inputs and both behaviours of NumPy.                   *)

InitFiles ==
    Constructed(var_types \X var_types \X var_types, {ScenarioA}, BOOLEAN)

NextFiles ==
    \/ Call_open_input_files
    \/ Call_read_input_files({Scalar(FInt(2)), IntGrid(<<2>>, <<1, 2>>)},
                             {Scalar(FInt(2)), IntGrid(<<1>>, <<3>>)},
                             {Scalar(FInt(5)), IntGrid(<<2>>, <<5, 6>>)})
    \/ Call_close_input_files

SpecFiles == InitFiles /\ [][NextFiles]_vars

-----------------------------------------------------------------------------
(* SpecShapes: update_ET_rate() on grids of equal and of different shapes:  *)
(* one and two axes, two and three cells, a row against a column.           *)

T_soil_xShapes ==
    {Scalar(FInt(15)), IntGrid(<<2>>, <<15, 10>>), IntGrid(<<2, 1>>, <<15, 10>>)}

T_surfShapes == {IntGrid(<<3>>, <<10, 20, 30>>), IntGrid(<<1, 2>>, <<10, 20>>)}

K_soilShapes == {Scalar(FInt(1)), IntGrid(<<2>>, <<1, 2>>)}

soil_xShapes == {Scalar(FInt(1)), IntGrid(<<2>>, <<1, 2>>)}

Q_sumShapes == {IntGrid(<<2>>, <<300, 50>>)}

QeShapes == {IntGrid(<<2>>, <<50, 100>>), IntGrid(<<3>>, <<50, 100, 50>>)}

InitShapes ==
    Constructed({<<"Grid", "Grid", "Grid">>}, {ScenarioA}, {FALSE})

NextShapes ==
    \/ Bind("T_soil_x", T_soil_xShapes)
    \/ Bind("T_surf", T_surfShapes)
    \/ Bind("K_soil", K_soilShapes)
    \/ Bind("soil_x", soil_xShapes)
    \/ Bind("Q_sum", Q_sumShapes)
    \/ Bind("Qe", QeShapes)
    \/ Call_update_ET_rate

SpecShapes == InitShapes /\ [][NextShapes]_vars

-----------------------------------------------------------------------------
(* The ET rate and the conductive flux (C1 - C4), under Spec.               *)

\* The last call was update_ET_rate() and it returned normally: ET and Qc
\* are the ones computed from the inputs as they are now.
Updated == last.op = "update_ET_rate" /\ last.raised = "None"

Elements(a) == {a.data[i] : i \in 1..size(a)}

\* The elements x of a and y of b that meet in an elementwise operation.
Pairs(a, b) ==
    LET rs == BroadcastShape(a.shape, b.shape)
    IN  {<<BroadcastAt(a, rs, j - 1), BroadcastAt(b, rs, j - 1)>> : j \in 1..Prod(rs, 1)}

\* C1: whatever the framework has bound and the files have yielded, the ET
\* left by update_ET_rate() is never negative, element by element.
C1_ET_never_negative ==
    "ET" \in DOMAIN self =>
        \A x \in Elements(self.ET) : ~IsNaN(x) /\ Sgn(x) >= 0

\* update_ET_rate() has run on an energy deficit, after the files were read.
C1_witness ==
    /\ Updated
    /\ self.Q_sum = Scalar(FInt(50))
    /\ self.Qe = Scalar(FInt(100))
    /\ yielded.K_soil # None
    /\ self.ET = Scalar(FInt(0))

\* C2: after update_ET_rate(), ET is 0 where Q_sum - Qe <= 0 and is
\* (Q_sum - Qe) / 2.5e9 elsewhere, whatever K_soil, T_soil_x, T_surf and
\* soil_x are; Q_sum = 300 and Qe = 50 give 1.0e-7.
ET_expected(q, e) ==
    IF Sgn(FSub(q, e)) <= 0 THEN FInt(0)
    ELSE FDiv(FSub(q, e), Float(25, 8))

C2_ET_is_clamped_net_energy ==
    Updated =>
        /\ self.ET.shape = BroadcastShape(self.Q_sum.shape, self.Qe.shape)
        /\ \A j \in 1..size(self.ET) :
               self.ET.data[j] =
                   ET_expected(BroadcastAt(self.Q_sum, self.ET.shape, j - 1),
                               BroadcastAt(self.Qe, self.ET.shape, j - 1))
        /\ (self.Q_sum = Scalar(FInt(300)) /\ self.Qe = Scalar(FInt(50))
               => self.ET = Scalar(Float(1, -7)))

\* Q_sum = 300 and Qe = 50 with soil inputs that make Qc negative: 1.0e-7.
C2_witness ==
    /\ Updated
    /\ self.Q_sum = Scalar(FInt(300))
    /\ self.Qe = Scalar(FInt(50))
    /\ self.K_soil = Scalar(FInt(-1))
    /\ self.T_soil_x = Scalar(FInt(15))
    /\ self.soil_x = Scalar(FInt(1))
    /\ self.Qc = Scalar(FInt(-5))
    /\ self.ET = Scalar(Float(1, -7))

Positive(a) == \A x \in Elements(a) : IsFinite(x) /\ Sgn(x) > 0

\* Qc has the sign of T_soil_x - T_surf, element by element.
Qc_sign_follows_delta_T ==
    /\ self.Qc.shape = BroadcastShape(self.T_soil_x.shape, self.T_surf.shape)
    /\ \A p \in Pairs(self.Qc, subtract(self.T_soil_x, self.T_surf)) :
           /\ ~IsNaN(p[1])
           /\ Sgn(p[1]) = Sgn(p[2])

\* C3 as stated: after update_ET_rate(), for every K_soil and every
\* soil_x > 0, Qc has the sign of T_soil_x - T_surf (and is 0 when they are
\* equal).
C3_original ==
    (Updated /\ Positive(self.soil_x)) => Qc_sign_follows_delta_T

\* C3 as amended: after update_ET_rate(), for every K_soil > 0 and every
\* soil_x > 0, Qc has the sign of T_soil_x - T_surf (and is 0 when they are
\* equal).
C3_Qc_sign ==
    (Updated /\ Positive(self.soil_x) /\ Positive(self.K_soil))
        => Qc_sign_follows_delta_T

\* Scenario A's soil inputs against a surface grid that is cooler in one
\* cell and warmer in the other.
C3_witness ==
    /\ Updated
    /\ self.K_soil = Scalar(Float(45, -2))
    /\ self.soil_x = Scalar(FInt(1))
    /\ self.T_soil_x = Scalar(FInt(15))
    /\ self.T_surf = IntGrid(<<2>>, <<10, 20>>)
    /\ self.Qc = Grid(<<2>>, <<Float(225, -2), Float(-225, -2)>>)

\* C4: a call of update_ET_rate() assigns Qc and ET and nothing else: every
\* other attribute, the lookup tables and the file objects are as before,
\* and the call performs no file operation.
C4_update_changes_only_Qc_and_ET ==
    [][last'.op = "update_ET_rate" =>
          /\ DOMAIN self' \subseteq DOMAIN self \cup {"Qc", "ET"}
          /\ \A k \in DOMAIN self \ {"Qc", "ET"} :
                 k \in DOMAIN self' /\ self'[k] = self[k]
          /\ evap_component' = evap_component
          /\ handles' = handles
          /\ yielded' = yielded
          /\ last'.io = << >>]_vars

\* update_ET_rate() has assigned both fields while the three files are open.
C4_witness ==
    /\ Updated
    /\ {"Qc", "ET"} \subseteq DOMAIN self
    /\ Len(handles) = 3
    /\ \A h \in 1..Len(handles) : ~handles[h].closed
    /\ self.K_soil_unit.kind = "file"

-----------------------------------------------------------------------------
(* The lookup tables and the accessors (C5, C9, C10), under SpecMeta.       *)

Range(seq) == {seq[i] : i \in 1..Len(seq)}

\* The identifiers the component lists as its inputs and outputs.
ListedIds ==
    Range(get_input_var_names(evap_component).ret.value)
    \cup Range(get_output_var_names(evap_component).ret.value)

\* Everything of the component but the record of the last call.
state == <<self, evap_component, handles, yielded, numpy, phase>>

\* C5: in every state the tables are the ones the class was built with, the
\* name map and the unit map have the same keys, and every listed input and
\* output identifier resolves in get_var_name() and in get_var_units().
C5_tables_consistent ==
    /\ evap_component = class_attributes
    /\ DOMAIN evap_component._var_name_map = DOMAIN evap_component._var_units_map
    /\ \A id \in ListedIds :
           /\ get_var_name(evap_component, id).raised = "None"
           /\ get_var_name(evap_component, id).ret # None
           /\ get_var_units(evap_component, id).raised = "None"
           /\ get_var_units(evap_component, id).ret # None

\* A listed output identifier has been looked up, on a component whose
\* files are open.
C5_witness ==
    /\ last.op = "get_var_units"
    /\ last.arg = S("soil_surface__conduction_energy_flux")
    /\ last.arg \in ListedIds
    /\ last.ret = Ret("W m-2")
    /\ phase = "stepping"

\* The attribute table's entries whose name is att_name but for the case.
SameButCase(att_name) == {k \in DOMAIN att_map : k.text = att_name.text}

\* C9: get_attribute(name) never raises and changes nothing; when the table
\* has the name in any case it returns the stored string and prints
\* nothing, else it prints a diagnostic that quotes the name and returns
\* None.
C9_get_attribute ==
    [][last'.op = "get_attribute" =>
          /\ state' = state
          /\ last'.raised = "None"
          /\ last'.io = << >>
          /\ \A k \in SameButCase(last'.arg) :
                 last'.ret = Ret(att_map[k]) /\ last'.printed = << >>
          /\ SameButCase(last'.arg) = {} =>
                 /\ last'.ret = None
                 /\ <<" ERROR: Could not find attribute: ", last'.arg>>
                        \in Range(last'.printed)]_vars

\* An absent name, written with a capital, has been asked for.
C9_witness ==
    /\ last.op = "get_attribute"
    /\ last.arg = [text |-> "unknown_attribute", upper |-> {1}]
    /\ last.ret = None
    /\ last.raised = "None"
    /\ Len(last.printed) = 4
    /\ "ET" \in DOMAIN self

\* C10: get_var_name(id) and get_var_units(id) raise KeyError for an
\* identifier that is not a key of their table, return the table's entry
\* otherwise, and change nothing either way;
\* get_var_units('land_water__evaporation_rate') returns 'm s-1'.
C10_var_lookup ==
    [][last'.op \in {"get_var_name", "get_var_units"} =>
          LET table == IF last'.op = "get_var_name" THEN var_name_map
                       ELSE var_units_map
          IN  /\ state' = state
              /\ last'.printed = << >>
              /\ last'.io = << >>
              /\ last'.arg \notin DOMAIN table =>
                     last'.raised = "KeyError" /\ last'.ret = None
              /\ last'.arg \in DOMAIN table =>
                     last'.raised = "None" /\ last'.ret = Ret(table[last'.arg])
              /\ (last'.op = "get_var_units"
                    /\ last'.arg = S("land_water__evaporation_rate"))
                     => last'.ret = Ret("m s-1")]_vars

\* The identifier that the tables leave out has been looked up.
C10_witness ==
    /\ last.op = "get_var_units"
    /\ last.arg = S("soil_surface__temperature")
    /\ last.raised = "KeyError"
    /\ "ALL_SCALARS" \in DOMAIN self

-----------------------------------------------------------------------------
(* check_input_types() (C6), under SpecTypes.                               *)

\* C6: check_input_types() sets ALL_SCALARS to whether all of T_soil_x,
\* soil_x, K_soil, h_snow, Q_sum, Qe and T_air are scalars, and changes
\* nothing else.
C6_check_input_types ==
    [][last'.op = "check_input_types" =>
          /\ self'.ALL_SCALARS =
                 (\A name \in {"T_soil_x", "soil_x", "K_soil", "h_snow",
                               "Q_sum", "Qe", "T_air"} : self[name].shape = << >>)
          /\ DOMAIN self' = DOMAIN self \cup {"ALL_SCALARS"}
          /\ \A k \in DOMAIN self \ {"ALL_SCALARS"} : self'[k] = self[k]
          /\ <<evap_component, handles, yielded, numpy, phase>>'
                 = <<evap_component, handles, yielded, numpy, phase>>
          /\ last'.raised = "None"
          /\ last'.io = << >>]_vars

\* check_input_types() has found one grid among the seven inputs.
C6_witness ==
    /\ last.op = "check_input_types"
    /\ self.ALL_SCALARS = FALSE
    /\ self.T_air.shape = <<2>>
    /\ \A name \in {"T_soil_x", "soil_x", "K_soil", "h_snow", "Q_sum", "Qe"} :
           self[name].shape = << >>

-----------------------------------------------------------------------------
(* The file inputs (C7, C8), under SpecFiles.                               *)

\* C7: after any number of read_input_files() calls, each of K_soil, soil_x
\* and T_soil_x is the last value its own source yielded, or its configured
\* value when its source has yielded nothing yet.
C7_last_yielded_value_kept ==
    \A name \in Range(file_inputs) :
        self[name] = IF yielded[name] = None THEN ScenarioA[name] ELSE yielded[name]

\* C8: when close_input_files() has been called at the end of a run, no
\* close was attempted on an input declared 'Scalar', which has no file
\* object, and the file object of every other input was closed, once; no
\* file object is left open.
C8_close_input_files ==
    phase = "finished" =>
        /\ last.op = "close_input_files"
        /\ last.raised = "None"
        /\ \A name \in Range(file_inputs) :
               IF self[type_of(name)] = "Scalar"
               THEN /\ self[unit_of(name)] = None
                    /\ <<"close", name>> \notin Range(last.io)
               ELSE /\ self[unit_of(name)] # None
                    /\ handles[self[unit_of(name)].id].closed
                    /\ handles[self[unit_of(name)].id].closes = 1
                    /\ <<"close", name>> \in Range(last.io)
        /\ \A h \in 1..Len(handles) : handles[h].closed

\* A run with a fixed scalar, a fixed grid and a series has been read from
\* and closed.
C8_witness ==
    /\ phase = "finished"
    /\ self.K_soil_type = "Scalar"
    /\ self.soil_x_type = "Grid"
    /\ self.T_soil_x_type = "Time_Series"
    /\ yielded.soil_x # None
    /\ Len(handles) = 2
    /\ handles[1].closed
    /\ handles[2].closed

-----------------------------------------------------------------------------
(* The shapes of the operands of update_ET_rate() (C11), under SpecShapes.  *)

Qc_operands == {"K_soil", "T_soil_x", "T_surf", "soil_x"}

ET_operands == {"Q_sum", "Qe"}

\* The shapes of the grids among the named inputs.
GridShapes(names) == {self[n].shape : n \in {m \in names : self[m].shape # << >>}}

\* Element j of a grid, or the value of a scalar.
At(a, j) == IF a.shape = << >> THEN a.data[1] ELSE a.data[j]

\* When the grids among the operands of Qc all have one shape, Qc has that
\* shape and is K_soil * (T_soil_x - T_surf) / soil_x cell by cell; when
\* those of ET do too, the call returns and ET has their shape and is the
\* clamped net energy cell by cell.
SameShapeResults ==
    /\ \A sh \in GridShapes(Qc_operands) :
           GridShapes(Qc_operands) = {sh} =>
               /\ "Qc" \in DOMAIN self
               /\ self.Qc.shape = sh
               /\ \A j \in 1..Prod(sh, 1) :
                      self.Qc.data[j] =
                          FDiv(FMul(At(self.K_soil, j),
                                    FSub(At(self.T_soil_x, j), At(self.T_surf, j))),
                               At(self.soil_x, j))
    /\ \A sh \in GridShapes(ET_operands) :
           (GridShapes(ET_operands) = {sh}
                /\ Cardinality(GridShapes(Qc_operands)) <= 1) =>
               /\ last.raised = "None"
               /\ self.ET.shape = sh
               /\ \A j \in 1..Prod(sh, 1) :
                      self.ET.data[j] =
                          ET_expected(At(self.Q_sum, j), At(self.Qe, j))

\* Two grids among the operands of one of the two results differ in shape.
ShapesDiffer ==
    \/ Cardinality(GridShapes(Qc_operands)) > 1
    \/ Cardinality(GridShapes(ET_operands)) > 1

\* C11 as stated: in update_ET_rate(), grids of one shape give Qc and ET of
\* that shape, cell by cell, and the call raises whenever two grid operands
\* differ in shape.
C11_original ==
    last.op = "update_ET_rate" =>
        /\ SameShapeResults
        /\ ShapesDiffer => last.raised # "None"

\* The length of shape s on its i-th axis counted from the last; 1 when s
\* has fewer axes.
Axis(s, i) == IF i <= Len(s) THEN s[Len(s) - i + 1] ELSE 1

\* On every axis, counted from the last, s and t are as long or one of them
\* has length 1.
Compatible(s, t) ==
    \A i \in 1..Max(Len(s), Len(t)) :
        Axis(s, i) = Axis(t, i) \/ Axis(s, i) = 1 \/ Axis(t, i) = 1

Largest(ns) == CHOOSE m \in ns : \A n \in ns : n <= m

\* The shape that has, on every axis, the greatest length any of the named
\* inputs has there.
JoinedShape(names) ==
    LET k == Largest({Len(self[n].shape) : n \in names})
    IN  [i \in 1..k |-> Largest({Axis(self[n].shape, k - i + 1) : n \in names})]

AllCompatible(names) ==
    \A a \in names, b \in names : Compatible(self[a].shape, self[b].shape)

\* C11 as amended: in update_ET_rate(), grids of one shape give Qc and ET of
\* that shape, cell by cell; the call raises ValueError exactly when two
\* operands of Qc, or Q_sum and Qe, have on some axis (counted from the
\* last) different lengths that are both greater than 1; operands whose
\* shapes differ in any other way are broadcast without an error, to a
\* result that has on every axis the greatest of the operands' lengths.
C11_shapes ==
    last.op = "update_ET_rate" =>
        /\ SameShapeResults
        /\ last.raised \in {"None", "ValueError"}
        /\ last.raised = "ValueError"
               <=> ~(AllCompatible(Qc_operands) /\ AllCompatible(ET_operands))
        /\ AllCompatible(Qc_operands) =>
               /\ "Qc" \in DOMAIN self
               /\ self.Qc.shape = JoinedShape(Qc_operands)
        /\ last.raised = "None" => self.ET.shape = JoinedShape(ET_operands)

\* A column of reference-depth temperatures against a row of surface
\* temperatures: update_ET_rate() has returned, with a 2 x 2 grid of Qc.
C11_witness ==
    /\ Updated
    /\ self.T_soil_x = IntGrid(<<2, 1>>, <<15, 10>>)
    /\ self.T_surf = IntGrid(<<1, 2>>, <<10, 20>>)
    /\ self.K_soil = Scalar(FInt(1))
    /\ self.soil_x = Scalar(FInt(1))
    /\ self.Qc = IntGrid(<<2, 2>>, <<5, -5, 0, -10>>)
    /\ self.ET.shape = <<2>>

-----------------------------------------------------------------------------
(* The output contract (C12), under SpecMeta.                               *)

\* Evaporation rate, cumulative evaporated volume, time step and conductive
\* flux.
computed_outputs ==
    {S("land_water__evaporation_rate"),
     S("land_water__area_time_integral_of_evaporation_rate"),
     S("model__time_step"),
     S("soil_surface__conduction_energy_flux")}

\* Land-surface elevation, reference-depth temperature, soil-surface
\* temperature, temperature reference depth and thermal conductivity.
pass_through_outputs ==
    {S("land_surface__elevation"),
     S("soil__reference_depth_temperature"),
     S("soil_surface__temperature"),
     S("soil__temperature_reference_depth"),
     S("soil__thermal_conductivity")}

Lookup == last.op \in {"get_var_name", "get_var_units"}

Resolved == last.raised = "None" /\ last.ret # None /\ last.ret.kind = "value"

\* C12: get_output_var_names() returns exactly the four computed
\* identifiers, and these four and the five pass-through identifiers, the
\* soil-surface temperature among them, all resolve in get_var_name() and
\* in get_var_units().
C12_output_contract ==
    /\ last.op = "get_output_var_names" =>
           Range(last.ret.value) = computed_outputs
    /\ (Lookup /\ last.arg \in computed_outputs \cup pass_through_outputs)
           => Resolved

-----------------------------------------------------------------------------
(* ALL_SCALARS and the outputs (C13), under SpecTypes.                      *)

\* C13: when check_input_types() has set ALL_SCALARS to true and
\* update_ET_rate() is the next call, so that no input has changed in
\* between, the update returns and leaves ET and Qc scalar; put the other
\* way round, when it leaves either of them a grid, ALL_SCALARS is false.
\* This is for every scalar/grid combination of the inputs update_ET_rate()
\* reads, T_surf included.
C13_ALL_SCALARS_tells_outputs ==
    [][(last.op = "check_input_types" /\ last'.op = "update_ET_rate"
           /\ self.ALL_SCALARS)
          => /\ last'.raised = "None"
             /\ self'.ALL_SCALARS
             /\ self'.ET.shape = << >>
             /\ self'.Qc.shape = << >>]_vars

====
